---------------------------- MODULE Spec2Model ----------------------------
(***************************************************************************)
(* A model of asv's environment and results modules:                       *)
(*   asv/environment.py  get_environments, Environment                     *)
(*   asv/results.py      Results and the results-tree scans                *)
(*                                                                         *)
(* Strings are sequences of one-character strings, so that formatting,     *)
(* joining, slicing and sorting are computed and not assumed.              *)
(***************************************************************************)
EXTENDS Integers, Sequences, FiniteSets, TLC

VARIABLES
    host,       \* what the host offers: interpreters found by util.which, virtualenv importable
    n_envs,     \* SpecName: two (python, requirements) configurations
    n_names,    \* SpecName: the value read from Environment.name of each, or NotRead
    m_conf,     \* SpecMatrix: conf.pythons and conf.matrix
    m_pos,      \* SpecMatrix: the generator's position <<python index, configuration index>>
    m_out,      \* SpecMatrix: the Environment objects yielded so far
    m_pc,       \* SpecMatrix: "running", "done" (StopIteration) or "raised" (RuntimeError)
    e_env,      \* Spec: the Environment instance
    e_dirs,     \* Spec: the directories that exist on disk
    e_site,     \* Spec: what pip has installed into the environment
    e_calls,    \* Spec: the external calls of the latest operation, in order
    e_exc,      \* Spec: whether the latest operation raised
    e_op,       \* Spec: the latest operation
    r_fs,       \* results: the tree, file path -> stored document
    r_rec,      \* results: the Results object the caller holds, or NoRec
    r_op,       \* results: the latest operation
    r_ret,      \* results: its argument, whether it raised, and what it returned
    r_ghost,    \* results: history: where r_rec came from, whether it is saved and untouched since, the bytes passed to add_profile on it
    e_hist      \* Spec: history: the operations so far with whether each raised, successful creates

hostVars   == <<host>>
nameVars   == <<n_envs, n_names>>
matrixVars == <<m_conf, m_pos, m_out, m_pc>>
envVars    == <<e_env, e_dirs, e_site, e_calls, e_exc, e_op, e_hist>>
resVars    == <<r_fs, r_rec, r_op, r_ret, r_ghost>>
vars == <<host, n_envs, n_names, m_conf, m_pos, m_out, m_pc,
          e_env, e_dirs, e_site, e_calls, e_exc, e_op, e_hist,
          r_fs, r_rec, r_op, r_ret, r_ghost>>

-----------------------------------------------------------------------------
(* Bounds *)

\* longest requirement mapping of an Environment in SpecName
MaxReqs == 2
\* most packages in a matrix
MaxMatrixKeys == 2
\* most interpreters in conf.pythons
MaxPythons == 2
\* most lifecycle operations invoked on the Environment instance
MaxOps == 4
\* most files in the results tree
MaxFiles == 3

-----------------------------------------------------------------------------
(* Strings *)

\* Python's None
None == <<"None">>

\* code points of the characters used
Ord(c) ==
    CASE c = "-" -> 45
      [] c = "." -> 46
      [] c = "/" -> 47
      [] c = "0" -> 48
      [] c = "1" -> 49
      [] c = "2" -> 50
      [] c = "3" -> 51
      [] c = "4" -> 52
      [] c = "7" -> 55
      [] c = "a" -> 97
      [] c = "b" -> 98
      [] c = "c" -> 99
      [] c = "h" -> 104
      [] c = "j" -> 106
      [] c = "m" -> 109
      [] c = "n" -> 110
      [] c = "o" -> 111
      [] c = "p" -> 112
      [] c = "r" -> 114
      [] c = "s" -> 115
      [] c = "y" -> 121
      [] OTHER -> 0

\* a < b for str: lexicographic by code point
RECURSIVE StrLess(_, _)
StrLess(a, b) ==
    IF a = <<>> THEN b # <<>>
    ELSE IF b = <<>> THEN FALSE
    ELSE IF Ord(a[1]) < Ord(b[1]) THEN TRUE
    ELSE IF Ord(a[1]) > Ord(b[1]) THEN FALSE
    ELSE StrLess(Tail(a), Tail(b))

\* sep.join(parts)
RECURSIVE StrJoin(_, _)
StrJoin(sep, parts) ==
    IF parts = <<>> THEN <<>>
    ELSE IF Len(parts) = 1 THEN parts[1]
    ELSE parts[1] \o sep \o StrJoin(sep, Tail(parts))

-----------------------------------------------------------------------------
(* Dictionaries: a dict is the sequence of its (key, value) items in        *)
(* iteration order, keys distinct.                                          *)

DictKeys(d) == {d[i][1] : i \in 1..Len(d)}

DictGet(d, k) == d[CHOOSE i \in 1..Len(d) : d[i][1] = k][2]

\* d1 == d2 for dicts: the same items, whatever the order
DictEq(d1, d2) ==
    {d1[i] : i \in 1..Len(d1)} = {d2[i] : i \in 1..Len(d2)}

\* d[key] = value on a copy of d
DictSet(d, k, v) ==
    IF k \in DictKeys(d)
    THEN [i \in 1..Len(d) |-> IF d[i][1] = k THEN <<k, v>> ELSE d[i]]
    ELSE Append(d, <<k, v>>)

\* the sequences of at most n items with distinct keys
RECURSIVE Dicts(_, _, _)
Dicts(keys, vals, n) ==
    IF n = 0 \/ keys = {} THEN {<<>>}
    ELSE {<<>>} \cup
         UNION {{<<<<k, v>>>> \o d : d \in Dicts(keys \ {k}, vals, n - 1)} :
                    <<k, v>> \in keys \X vals}

-----------------------------------------------------------------------------
(* Environment.name *)

\* list.sort() on (key, value) tuples whose keys are distinct: keys decide
RECURSIVE InsertSorted(_, _)
InsertSorted(x, s) ==
    IF s = <<>> THEN <<x>>
    ELSE IF StrLess(x[1], s[1][1]) THEN <<x>> \o s
    ELSE <<s[1]>> \o InsertSorted(x, Tail(s))

RECURSIVE SortedItems(_)
SortedItems(items) ==
    IF items = <<>> THEN <<>>
    ELSE InsertSorted(Head(items), SortedItems(Tail(items)))

ListSortUnsorted(reqs) == reqs

ListSort(reqs) == SortedItems(reqs)

\* name.append(''.join([key, val])) or name.append(key)
NamePart(item) ==
    IF item[2] # None THEN item[1] \o item[2] ELSE item[1]

Name(python, requirements) ==
    LET reqs == ListSort(requirements)
        name == <<<<"p", "y">> \o python>>
                    \o [i \in 1..Len(reqs) |-> NamePart(reqs[i])]
    IN  StrJoin(<<"-">>, name)

-----------------------------------------------------------------------------
(* Input alphabets *)

Pythons == {<<"2", ".", "7">>, <<"3", ".", "4">>}

PackageNames == {<<"a">>, <<"a", "1">>, <<"b">>}

Versions == {<<"1">>, <<"1", "1">>}

Hosts == [pythons : SUBSET Pythons, virtualenv : BOOLEAN]


-----------------------------------------------------------------------------
(* os.path *)

\* os.path.join(a, b)
PathJoin(a, b) ==
    IF b # <<>> /\ b[1] = "/" THEN b
    ELSE IF a = <<>> \/ a[Len(a)] = "/" THEN a \o b
    ELSE a \o <<"/">> \o b

Cwd == <<"/", "w">>

\* os.path.abspath
Abspath(path) == IF path[1] = "/" THEN path ELSE PathJoin(Cwd, path)

-----------------------------------------------------------------------------
(* Environment.__init__ *)

\* util.which finds an executable and virtualenv can be imported
CanConstruct(h, python) == python \in h.pythons /\ h.virtualenv

\* the object __init__ leaves behind when it does not raise
EnvironmentInit(env_dir, python, requirements) ==
    [env_dir |-> env_dir,
     python |-> python,
     requirements |-> requirements,
     path |-> PathJoin(env_dir, Name(python, requirements)),
     is_setup |-> FALSE,
     requirements_installed |-> FALSE]

EnvDir == <<"e">>

-----------------------------------------------------------------------------
(* SpecName: reading Environment.name of two environments *)

NotRead == <<"NotRead">>

Requirements(n) == Dicts(PackageNames, Versions \cup {None}, n)

IdleName ==
    /\ n_envs = <<>>
    /\ n_names = <<>>

IdleEnv ==
    /\ e_env = <<>>
    /\ e_dirs = {}
    /\ e_site = {}
    /\ e_calls = <<>>
    /\ e_exc = FALSE
    /\ e_op = "idle"
    /\ e_hist = <<>>

IdleResults ==
    /\ r_fs = <<>>
    /\ r_rec = <<>>
    /\ r_op = "idle"
    /\ r_ret = <<>>
    /\ r_ghost = <<>>

IdleMatrix ==
    /\ m_conf = <<>>
    /\ m_pos = <<>>
    /\ m_out = <<>>
    /\ m_pc = "idle"

InitName ==
    /\ host = [pythons |-> Pythons, virtualenv |-> TRUE]
    /\ \E p \in Pythons, r1, r2 \in Requirements(MaxReqs) :
          n_envs = <<EnvironmentInit(EnvDir, <<"2", ".", "7">>, r1),
                     EnvironmentInit(EnvDir, p, r2)>>
    /\ n_names = <<NotRead, NotRead>>
    /\ IdleMatrix
    /\ IdleEnv
    /\ IdleResults

ReadName(i) ==
    /\ n_names[i] = NotRead
    /\ n_names' = [n_names EXCEPT
                     ![i] = Name(n_envs[i].python, n_envs[i].requirements)]
    /\ UNCHANGED <<host, n_envs, matrixVars, envVars, resVars>>

NextName == \E i \in 1..2 : ReadName(i)

SpecName == InitName /\ [][NextName]_vars

-----------------------------------------------------------------------------
(* get_environments *)

\* the inner loop of iter_matrix for one result of the recursive call
ExpandDropsEmpty(result, key, entry) ==
    IF Len(entry) > 0
    THEN [i \in 1..Len(entry) |-> DictSet(result, key, entry[i])]
    ELSE <<result>>

Expand(result, key, entry) ==
    IF Len(entry) > 0
    THEN [i \in 1..Len(entry) |-> DictSet(result, key, entry[i])]
    ELSE <<DictSet(result, key, None)>>

RECURSIVE Flatten(_)
Flatten(ss) == IF ss = <<>> THEN <<>> ELSE Head(ss) \o Flatten(Tail(ss))

\* iter_matrix: the first key of the dict is removed and the rest expanded
RECURSIVE IterMatrix(_)
IterMatrix(matrix) ==
    IF Len(matrix) = 0 THEN <<<<>>>>
    ELSE LET key == matrix[1][1]
             entry == matrix[1][2]
             results == IterMatrix(Tail(matrix))
         IN  Flatten([i \in 1..Len(results) |-> Expand(results[i], key, entry)])

VersionLists == {<<>>, <<<<"1">>>>, <<<<"1">>, <<"1", "1">>>>}

Matrices == Dicts(PackageNames, VersionLists, MaxMatrixKeys)

PythonLists == UNION {[1..n -> Pythons] : n \in 1..MaxPythons}

InitMatrix ==
    /\ host \in Hosts
    /\ m_conf \in [pythons : PythonLists, matrix : Matrices, env_dir : {EnvDir}]
    /\ m_pos = <<1, 1>>
    /\ m_out = <<>>
    /\ m_pc = "running"
    /\ IdleName
    /\ IdleEnv
    /\ IdleResults

\* the generator is resumed and yields its next Environment
GetEnvironmentsYield ==
    /\ m_pc = "running"
    /\ m_pos[1] <= Len(m_conf.pythons)
    /\ LET python == m_conf.pythons[m_pos[1]]
           confs == IterMatrix(m_conf.matrix)
       IN  /\ CanConstruct(host, python)
           /\ m_out' = Append(m_out,
                  EnvironmentInit(m_conf.env_dir, python, confs[m_pos[2]]))
           /\ m_pos' = IF m_pos[2] < Len(confs)
                       THEN <<m_pos[1], m_pos[2] + 1>>
                       ELSE <<m_pos[1] + 1, 1>>
    /\ UNCHANGED <<host, m_conf, m_pc, nameVars, envVars, resVars>>

\* the generator is resumed and Environment() raises RuntimeError
GetEnvironmentsRaise ==
    /\ m_pc = "running"
    /\ m_pos[1] <= Len(m_conf.pythons)
    /\ ~CanConstruct(host, m_conf.pythons[m_pos[1]])
    /\ m_pc' = "raised"
    /\ UNCHANGED <<host, m_conf, m_pos, m_out, nameVars, envVars, resVars>>

\* the generator is resumed after its last item: StopIteration
GetEnvironmentsStop ==
    /\ m_pc = "running"
    /\ m_pos[1] > Len(m_conf.pythons)
    /\ m_pc' = "done"
    /\ UNCHANGED <<host, m_conf, m_pos, m_out, nameVars, envVars, resVars>>

NextMatrix ==
    \/ GetEnvironmentsYield
    \/ GetEnvironmentsRaise
    \/ GetEnvironmentsStop

SpecMatrix == InitMatrix /\ [][NextMatrix]_vars

-----------------------------------------------------------------------------
(* Claims about get_environments *)

Range(s) == {s[i] : i \in 1..Len(s)}

\* a dict as a function of its keys
DictFn(d) == [k \in DictKeys(d) |-> DictGet(d, k)]

\* the versions a matrix entry admits: the listed ones, or None alone
Admissible(entry) == IF entry = <<>> THEN {None} ELSE Range(entry)

\* the product over the matrix's keys of the admissible versions
MatrixProduct(matrix) ==
    {f \in [DictKeys(matrix) -> Versions \cup {None}] :
        \A k \in DictKeys(matrix) : f[k] \in Admissible(DictGet(matrix, k))}

\* product of max(1, ni)
RECURSIVE ProductSize(_)
ProductSize(matrix) ==
    IF matrix = <<>> THEN 1
    ELSE (IF Len(matrix[1][2]) = 0 THEN 1 ELSE Len(matrix[1][2]))
            * ProductSize(Tail(matrix))

\* the environments yielded for the i-th interpreter of conf.pythons
YieldedFor(i) ==
    LET n == ProductSize(m_conf.matrix)
    IN  SubSeq(m_out, (i - 1) * n + 1, i * n)

YieldsTheProduct ==
    LET n == ProductSize(m_conf.matrix)
    IN  /\ Len(m_out) = Len(m_conf.pythons) * n
        /\ \A j \in 1..Len(m_out) :
              DictKeys(m_out[j].requirements) = DictKeys(m_conf.matrix)
        /\ \A i \in 1..Len(m_conf.pythons) :
              LET block == YieldedFor(i)
              IN  /\ \A j \in 1..n : block[j].python = m_conf.pythons[i]
                  /\ {DictFn(block[j].requirements) : j \in 1..n}
                        = MatrixProduct(m_conf.matrix)
                  /\ \A j, k \in 1..n :
                        j # k => ~DictEq(block[j].requirements,
                                         block[k].requirements)
        /\ m_conf.matrix = <<>> =>
              \A j \in 1..Len(m_out) : m_out[j].requirements = <<>>

AllConstructible ==
    \A i \in 1..Len(m_conf.pythons) : CanConstruct(host, m_conf.pythons[i])

\* C1 as stated: for every interpreter list and matrix, once get_environments
\* has ended it has yielded exactly interpreters x product of the admissible
\* versions: the matrix's keys in every configuration, none twice,
\* |interpreters| * product of max(1, ni) in all.
C1_YieldsProductAlways ==
    m_pc \in {"done", "raised"} => YieldsTheProduct

\* C1 amended: when an executable is found for every listed interpreter (and
\* virtualenv is importable), get_environments ends normally having yielded
\* exactly that product.
C1_YieldsProductWhenConstructible ==
    (m_pc \in {"done", "raised"} /\ AllConstructible)
        => (m_pc = "done" /\ YieldsTheProduct)

\* two interpreters, a package with two versions and one with none: 4 yielded
C1_Witness ==
    /\ m_pc = "done"
    /\ Len(m_conf.pythons) = 2
    /\ Len(m_conf.matrix) = 2
    /\ \E i, j \in 1..2 : Len(m_conf.matrix[i][2]) = 2 /\ Len(m_conf.matrix[j][2]) = 0
    /\ Len(m_out) = 4

-----------------------------------------------------------------------------
(* Claims about Environment.name *)

BothRead == n_names[1] # NotRead /\ n_names[2] # NotRead

SameConfiguration ==
    /\ n_envs[1].python = n_envs[2].python
    /\ DictEq(n_envs[1].requirements, n_envs[2].requirements)

\* C5 as stated: the name is injective: two configurations that differ in
\* the interpreter or in the requirement mapping have different names.
C5_NameInjective ==
    (BothRead /\ ~SameConfiguration) => n_names[1] # n_names[2]

\* the one ordering of a dict's items in which the keys ascend
Ascending(d) ==
    CHOOSE s \in [1..Len(d) -> Range(d)] :
        /\ Range(s) = Range(d)
        /\ \A i \in 1..(Len(d) - 1) : StrLess(s[i][1], s[i + 1][1])

\* "py" + python, then each entry as name or name + version, joined by "-"
Rendered(python, items) ==
    StrJoin(<<"-">>,
        <<<<"p", "y">> \o python>>
            \o [i \in 1..Len(items) |->
                  IF items[i][2] = None THEN items[i][1]
                  ELSE items[i][1] \o items[i][2]])

\* C6: two environments with the same interpreter and the same (package,
\* version) pairs, inserted in whatever order, have the same name, and it
\* renders the entries in ascending order of package name.
C6_NameOrderIndependent ==
    /\ (BothRead /\ SameConfiguration) => n_names[1] = n_names[2]
    /\ \A i \in 1..2 :
          n_names[i] # NotRead =>
              n_names[i] = Rendered(n_envs[i].python,
                                    Ascending(n_envs[i].requirements))

\* the same two pairs inserted in opposite orders, both names read
C6_Witness ==
    /\ BothRead
    /\ SameConfiguration
    /\ Len(n_envs[1].requirements) = 2
    /\ n_envs[1].requirements # n_envs[2].requirements

-----------------------------------------------------------------------------
(* Environment: the lifecycle of one instance                               *)
(*                                                                          *)
(* An operation runs on a record st = [env, dirs, site, calls, exc] and     *)
(* yields the record it leaves; o holds the outcomes of the external calls  *)
(* it may make: o.create, o.pipFail (which pip upgrade fails, 0 for none),  *)
(* o.uninstall, o.install, o.python.                                        *)

\* os.path.exists
Exists(dirs, path) == path # <<>> /\ path \in dirs

Call(tool, args, ok) == [tool |-> tool, args |-> args, ok |-> ok]

Raise(st) == [st EXCEPT !.exc = TRUE]

SetupCleanupKeeps(dirs, path) == dirs

\* the except clause of setup: shutil.rmtree(self._path) if it exists
SetupCleanup(dirs, path) ==
    IF Exists(dirs, path) THEN dirs \ {path} ELSE dirs

\* setup's early return
SetupIsDone(st) == st.env.is_setup

\* a setup that creates the virtualenv whenever it is called
DoSetupUnguarded(st, o) ==
    LET dirs1 == st.dirs \cup {st.env.env_dir}
        path == st.env.path
    IN  IF o.create = "ok"
        THEN [st EXCEPT !.dirs = dirs1 \cup {path},
                        !.calls = Append(@, Call("virtualenv", path, TRUE)),
                        !.env.is_setup = TRUE]
        ELSE Raise([st EXCEPT
                      !.dirs = SetupCleanup(dirs1 \cup {path}, path),
                      !.calls = Append(@, Call("virtualenv", path, FALSE))])

\* Environment.setup
DoSetup(st, o) ==
    IF SetupIsDone(st) THEN st
    ELSE IF ~Exists(st.dirs, st.env.env_dir) /\ st.env.env_dir = <<>>
    THEN Raise(st)      \* os.makedirs('') raises
    ELSE
    LET dirs1 == st.dirs \cup {st.env.env_dir}
        path == st.env.path
    IN  IF Exists(dirs1, path)
        THEN [st EXCEPT !.dirs = dirs1, !.env.is_setup = TRUE]
        ELSE IF o.create = "ok"
        THEN [st EXCEPT !.dirs = dirs1 \cup {path},
                        !.calls = Append(@, Call("virtualenv", path, TRUE)),
                        !.env.is_setup = TRUE]
        ELSE LET left == IF o.create = "fail_partial"
                         THEN dirs1 \cup {path} ELSE dirs1
             IN  Raise([st EXCEPT
                          !.dirs = SetupCleanup(left, path),
                          !.calls = Append(@, Call("virtualenv", path, FALSE))])

Setuptools == <<"s", "e", "t", "u", "p", "t", "o", "o", "l", "s">>

\* every requirement upgraded by its name alone
UpgradeArgNameOnly(item) == item[1]

\* the argument of upgrade() for one requirement
UpgradeArg(item) ==
    IF item[2] # None THEN item[1] \o <<"=", "=">> \o item[2] ELSE item[1]

\* the packages install_requirements upgrades, in order
UpgradeArgs(requirements) ==
    <<Setuptools>> \o [i \in 1..Len(requirements) |-> UpgradeArg(requirements[i])]

\* upgrades whose failure marks the environment as not set up
PipUpgradesUnprovisions(st, args, failAt) ==
    LET n == IF failAt \in 1..Len(args) THEN failAt ELSE Len(args)
    IN  [st EXCEPT
           !.calls = @ \o [i \in 1..n |->
                             Call("pip", <<"install", "--upgrade", args[i]>>,
                                  i # failAt)],
           !.site = @ \cup {args[i] : i \in (1..n) \ {failAt}},
           !.env.is_setup = failAt \notin 1..Len(args),
           !.exc = failAt \in 1..Len(args)]

\* Environment.upgrade called for args[1], args[2], ... until one raises
PipUpgrades(st, args, failAt) ==
    LET n == IF failAt \in 1..Len(args) THEN failAt ELSE Len(args)
    IN  [st EXCEPT
           !.calls = @ \o [i \in 1..n |->
                             Call("pip", <<"install", "--upgrade", args[i]>>,
                                  i # failAt)],
           !.site = @ \cup {args[i] : i \in (1..n) \ {failAt}},
           !.exc = failAt \in 1..Len(args)]

InstallRequirementsAlwaysInstalls(st) == FALSE

\* install_requirements' early return
RequirementsAreInstalled(st) == st.env.requirements_installed

\* an install_requirements that sets the flag though an upgrade raised
DoInstallRequirementsMarksAnyway(st, o) ==
    IF RequirementsAreInstalled(st) THEN st
    ELSE LET st1 == DoSetup(st, o)
         IN  IF st1.exc THEN st1
             ELSE [PipUpgrades(st1, UpgradeArgs(st1.env.requirements), o.pipFail)
                      EXCEPT !.env.requirements_installed = TRUE]

\* an install_requirements that does not call setup()
DoInstallRequirementsSkipsSetup(st, o) ==
    IF RequirementsAreInstalled(st) THEN st
    ELSE LET st2 == PipUpgrades(st, UpgradeArgs(st.env.requirements), o.pipFail)
         IN  IF st2.exc THEN st2
             ELSE [st2 EXCEPT !.env.requirements_installed = TRUE]

\* Environment.install_requirements
DoInstallRequirements(st, o) ==
    IF RequirementsAreInstalled(st) THEN st
    ELSE LET st1 == DoSetup(st, o)
         IN  IF st1.exc THEN st1
             ELSE LET st2 == PipUpgrades(st1, UpgradeArgs(st1.env.requirements),
                                         o.pipFail)
                  IN  IF st2.exc THEN st2
                      ELSE [st2 EXCEPT !.env.requirements_installed = TRUE]

\* a run that starts the interpreter without installing anything
DoRunAtOnce(st, o, args) ==
    [st EXCEPT !.calls = Append(@, Call("python", args, o.python)),
               !.exc = ~o.python]

\* Environment.run
DoRun(st, o, args) ==
    LET st1 == DoInstallRequirements(st, o)
    IN  IF st1.exc THEN st1
        ELSE [st1 EXCEPT !.calls = Append(@, Call("python", args, o.python)),
                         !.exc = ~o.python]

\* util.check_output raises when the command fails, unless error=False
CheckOutputRaises(ok, error) == error /\ ~ok

\* an uninstall whose failure raises
UninstallRaises(st, package, ok) ==
    [st EXCEPT !.calls = Append(@, Call("pip", <<"uninstall", "-y", package>>, ok)),
               !.site = IF ok THEN @ \ {package} ELSE @,
               !.exc = ~ok]

\* Environment.uninstall: pip uninstall -y, run with error=False
Uninstall(st, package, ok) ==
    [st EXCEPT !.calls = Append(@, Call("pip", <<"uninstall", "-y", package>>, ok)),
               !.site = IF ok THEN @ \ {package} ELSE @,
               !.exc = CheckOutputRaises(ok, FALSE)]

\* Environment.install(package, editable=True): pip install -e
InstallEditable(st, package, ok) ==
    [st EXCEPT !.calls = Append(@, Call("pip", <<"install", "-e", package>>, ok)),
               !.site = IF ok THEN @ \cup {package} ELSE @,
               !.exc = CheckOutputRaises(ok, TRUE)]

\* Environment.install_project
DoInstallProject(st, o, project) ==
    LET st1 == DoInstallRequirements(st, o)
    IN  IF st1.exc THEN st1
        ELSE LET st2 == Uninstall(st1, project, o.uninstall)
             IN  IF st2.exc THEN st2
                 ELSE InstallEditable(st2, Abspath(project), o.install)

-----------------------------------------------------------------------------
(* Spec: lifecycle operations invoked on one Environment, in any order *)

\* no requirement, a pinned one, an unpinned one, and both in either order
LifecycleRequirements ==
    {<<>>,
     <<<<<<"a">>, <<"1">>>>>>,
     <<<<<<"b">>, None>>>>,
     <<<<<<"a">>, <<"1">>>>, <<<<"b">>, None>>>>,
     <<<<<<"b">>, None>>, <<<<"a">>, <<"1">>>>>>}

CreateOutcomes == {"ok", "fail_partial", "fail_clean"}

Outcome(create, pipFail, uninstall, install, python) ==
    [create |-> create, pipFail |-> pipFail, uninstall |-> uninstall,
     install |-> install, python |-> python]

Project == <<"p", "r", "j">>

RunArgs == <<<<"-", "c">>>>

Init ==
    /\ host = [pythons |-> Pythons, virtualenv |-> TRUE]
    /\ \E env_dir \in {EnvDir, <<>>}, requirements \in LifecycleRequirements :
          e_env = EnvironmentInit(env_dir, <<"2", ".", "7">>, requirements)
    /\ e_dirs \in SUBSET {e_env.env_dir, e_env.path}
    /\ e_env.path \in e_dirs /\ e_env.env_dir # <<>> => e_env.env_dir \in e_dirs
    /\ <<>> \notin e_dirs
    /\ e_site = {}
    /\ e_calls = <<>>
    /\ e_exc = FALSE
    /\ e_op = "new"
    /\ e_hist = [log |-> <<>>, created |-> 0]
    /\ IdleName
    /\ IdleMatrix
    /\ IdleResults

\* the instance as an operation finds it: no call made yet, nothing raised
St == [env |-> e_env, dirs |-> e_dirs, site |-> e_site, calls |-> <<>>,
       exc |-> FALSE]

SuccessfulCreates(calls) ==
    Cardinality({i \in 1..Len(calls) : calls[i].tool = "virtualenv" /\ calls[i].ok})

\* the operation op has run and left st
Finish(op, st) ==
    /\ Len(e_hist.log) < MaxOps
    /\ e_env' = st.env
    /\ e_dirs' = st.dirs
    /\ e_site' = st.site
    /\ e_calls' = st.calls
    /\ e_exc' = st.exc
    /\ e_op' = op
    /\ e_hist' = [log |-> Append(e_hist.log, <<op, st.exc>>),
                  created |-> e_hist.created + SuccessfulCreates(st.calls)]
    /\ UNCHANGED <<host, nameVars, matrixVars, resVars>>

PipFails == 0..(Len(e_env.requirements) + 1)

Setup ==
    \E c \in CreateOutcomes :
        Finish("setup", DoSetup(St, Outcome(c, 0, TRUE, TRUE, TRUE)))

InstallRequirements ==
    \E c \in CreateOutcomes, f \in PipFails :
        Finish("install_requirements",
               DoInstallRequirements(St, Outcome(c, f, TRUE, TRUE, TRUE)))

Run ==
    \E c \in CreateOutcomes, f \in PipFails, ok \in BOOLEAN :
        Finish("run", DoRun(St, Outcome(c, f, TRUE, TRUE, ok), RunArgs))

InstallProject ==
    \E c \in CreateOutcomes, f \in PipFails, u, i \in BOOLEAN :
        Finish("install_project",
               DoInstallProject(St, Outcome(c, f, u, i, TRUE), Project))

Next ==
    \/ Setup
    \/ InstallRequirements
    \/ Run
    \/ InstallProject

Spec == Init /\ [][Next]_vars

-----------------------------------------------------------------------------
(* Claims about the lifecycle *)

\* op has been invoked and has returned without raising
Returned(op) == \E i \in 1..Len(e_hist.log) : e_hist.log[i] = <<op, FALSE>>

\* this step is an invocation of op
Invokes(op) == e_hist'.log = Append(e_hist.log, <<op, e_exc'>>) /\ e_op' = op

Creates(calls) == {i \in 1..Len(calls) : calls[i].tool = "virtualenv"}

\* C2: over any sequence of operations on the instance virtualenv is run
\* successfully at most once, and a setup() invoked after a setup() that
\* returned runs virtualenv not at all.
C2_CreateAtMostOnce ==
    /\ [](e_hist.created <= 1)
    /\ [][(Returned("setup") /\ Invokes("setup")) => Creates(e_calls') = {}]_vars

\* setup() created the virtualenv and a second setup() has returned
C2_Witness ==
    /\ e_hist.log = <<<<"setup", FALSE>>, <<"setup", FALSE>>>>
    /\ e_hist.created = 1
    /\ e_calls = <<>>

InstanceUnchanged ==
    /\ e_env' = e_env
    /\ e_dirs' = e_dirs
    /\ e_site' = e_site

\* C3 as stated: a step that has succeeded is a no-op when invoked again:
\* install_requirements() issues no pip call, install_project() issues no
\* uninstall or install call and leaves the state unchanged.
C3_RepeatIsNoOp ==
    [][/\ (Returned("install_requirements") /\ Invokes("install_requirements"))
            => (e_calls' = <<>> /\ InstanceUnchanged)
       /\ (Returned("install_project") /\ Invokes("install_project"))
            => (e_calls' = <<>> /\ InstanceUnchanged)]_vars

\* C3 amended: a repeated install_requirements() is a no-op; a repeated
\* install_project() provisions nothing and upgrades no requirement again,
\* but it does uninstall the project and install it in editable mode again.
C3_RepeatInstallsProjectOnly ==
    [][/\ (Returned("install_requirements") /\ Invokes("install_requirements"))
            => (e_calls' = <<>> /\ InstanceUnchanged)
       /\ (Returned("install_project") /\ Invokes("install_project"))
            => /\ Len(e_calls') = 2
               /\ e_calls'[1].tool = "pip"
               /\ e_calls'[1].args = <<"uninstall", "-y", Project>>
               /\ e_calls'[2].tool = "pip"
               /\ e_calls'[2].args = <<"install", "-e", Abspath(Project)>>
               /\ e_env' = e_env /\ e_dirs' = e_dirs]_vars

\* both steps have been invoked again after they returned
C3_Witness ==
    /\ Len(e_hist.log) = 4
    /\ e_hist.log[1] = <<"install_requirements", FALSE>>
    /\ e_hist.log[2] = <<"install_requirements", FALSE>>
    /\ e_hist.log[3] = <<"install_project", FALSE>>
    /\ e_hist.log[4][1] = "install_project"
    /\ Len(e_calls) = 2

FailedCreate(calls) ==
    \E i \in 1..Len(calls) : calls[i].tool = "virtualenv" /\ ~calls[i].ok

\* C4: when virtualenv fails, the operation returns by raising, after one
\* attempt, with the environment's directory absent and _is_setup false;
\* the next setup() runs virtualenv again.
C4_FailedCreateCleansUp ==
    /\ [](FailedCreate(e_calls) =>
            /\ e_exc
            /\ Cardinality(Creates(e_calls)) = 1
            /\ ~Exists(e_dirs, e_env.path)
            /\ ~e_env.is_setup)
    /\ [][(FailedCreate(e_calls) /\ Invokes("setup"))
            => Creates(e_calls') # {}]_vars

\* virtualenv failed in setup(), and the following setup() ran it again
C4_Witness ==
    /\ Len(e_hist.log) = 2
    /\ e_hist.log[1] = <<"setup", TRUE>>
    /\ e_hist.log[2][1] = "setup"
    /\ Creates(e_calls) # {}
    /\ e_hist.created = 1

-----------------------------------------------------------------------------
(* Results: the record and its file                                         *)
(*                                                                          *)
(* The results tree is a function from file paths to stored documents.      *)

\* Results.api_version
ApiVersion == 1

\* the slice bound of self._commit_hash[:8]
HashPrefixLen == 8

DotJson == <<".", "j", "s", "o", "n">>

HashPrefixWhole(commit_hash) == commit_hash

\* commit_hash[:8]
HashPrefix(commit_hash) ==
    SubSeq(commit_hash, 1,
           IF Len(commit_hash) < HashPrefixLen THEN Len(commit_hash)
           ELSE HashPrefixLen)

\* a file name without the commit hash
FormatFilenameEnvOnly(a, b) == b \o DotJson

\* "{0}-{1}.json".format(a, b)
FormatFilename(a, b) == a \o <<"-">> \o b \o DotJson

\* Results.__init__
ResultsInit(params, env, commit_hash, date) ==
    [params |-> params,
     env |-> env,
     commit_hash |-> commit_hash,
     date |-> date,
     results |-> <<>>,
     profiles |-> <<>>,
     python |-> env.python,
     filename |-> PathJoin(params.machine,
                    FormatFilename(HashPrefix(commit_hash),
                                   Name(env.python, env.requirements)))]

\* Results.add_time
AddTime(obj, benchmark_name, time) ==
    [obj EXCEPT !.results = DictSet(@, benchmark_name, time)]

\* zlib.compress followed by base64.b64encode, and back
Compress(bytes) == <<"z">> \o bytes
B64Encode(bytes) == <<"b64", bytes>>
B64Decode(text) == text[2]
Decompress(bytes) == Tail(bytes)

\* an add_profile that keeps the profile a benchmark already has
AddProfileKeepsFirst(obj, benchmark_name, profile) ==
    IF benchmark_name \in DictKeys(obj.profiles) THEN obj
    ELSE [obj EXCEPT !.profiles =
            Append(@, <<benchmark_name, B64Encode(Compress(profile))>>)]

\* Results.add_profile
AddProfile(obj, benchmark_name, profile) ==
    [obj EXCEPT !.profiles =
        DictSet(@, benchmark_name, B64Encode(Compress(profile)))]

\* Results.has_profile
HasProfile(obj, benchmark_name) == benchmark_name \in DictKeys(obj.profiles)

\* Results.get_profile raises KeyError
GetProfileRaises(obj, benchmark_name) ==
    benchmark_name \notin DictKeys(obj.profiles)

\* Results.get_profile when it does not raise
GetProfile(obj, benchmark_name) ==
    Decompress(B64Decode(DictGet(obj.profiles, benchmark_name)))

\* util.write_json: the data stamped with the version, written at path
WriteJson(fs, path, data, api_version) ==
    (path :> (data @@ [version |-> api_version])) @@ fs

\* util.load_json raises for a missing file or another version
LoadJsonRaises(fs, path, api_version) ==
    \/ path \notin DOMAIN fs
    \/ fs[path].version # api_version

\* util.load_json: the stored data
LoadJson(fs, path, api_version) == fs[path]

\* the document save() writes
Document(obj) ==
    [results |-> obj.results,
     params |-> obj.params,
     requirements |-> obj.env.requirements,
     commit_hash |-> obj.commit_hash,
     date |-> obj.date,
     python |-> obj.python,
     profiles |-> obj.profiles]

\* the path save() and rm() use
PathOf(obj, result_dir) == PathJoin(result_dir, obj.filename)

\* Results.save
Save(fs, obj, result_dir) ==
    WriteJson(fs, PathOf(obj, result_dir), Document(obj), ApiVersion)

\* an os.remove that fails silently when there is no such file
RmSilent(fs, obj, result_dir) ==
    [fs |-> [p \in DOMAIN fs \ {PathOf(obj, result_dir)} |-> fs[p]],
     exc |-> FALSE]

\* Results.rm: the tree it leaves, and whether os.remove raised for want of
\* the file
Rm(fs, obj, result_dir) ==
    LET path == PathOf(obj, result_dir)
    IN  [fs |-> [p \in DOMAIN fs \ {path} |-> fs[p]],
         exc |-> path \notin DOMAIN fs]

\* path.split(os.path.sep)
RECURSIVE SplitFrom(_, _, _)
SplitFrom(path, i, part) ==
    IF i > Len(path) THEN <<part>>
    ELSE IF path[i] = "/" THEN <<part>> \o SplitFrom(path, i + 1, <<>>)
    ELSE SplitFrom(path, i + 1, Append(part, path[i]))

Split(path) == SplitFrom(path, 1, <<>>)

\* os.path.join(*parts)
RECURSIVE JoinAll(_)
JoinAll(parts) ==
    IF Len(parts) = 1 THEN parts[1]
    ELSE PathJoin(JoinAll(SubSeq(parts, 1, Len(parts) - 1)), parts[Len(parts)])

LastOneComponent(parts) == SubSeq(parts, Len(parts), Len(parts))

\* parts[-2:]
LastTwoComponents(parts) ==
    SubSeq(parts, IF Len(parts) < 2 THEN 1 ELSE Len(parts) - 1, Len(parts))

RecordKeys == {"params", "python", "requirements", "commit_hash", "date", "results"}

\* Results.load raises: load_json does, a key is missing, or Environment() does
LoadRaises(h, fs, path) ==
    \/ LoadJsonRaises(fs, path, ApiVersion)
    \/ ~(RecordKeys \subseteq DOMAIN fs[path])
    \/ ~CanConstruct(h, fs[path].python)

\* Results.load when it does not raise
Load(fs, path) ==
    LET d == LoadJson(fs, path, ApiVersion)
        obj == ResultsInit(d.params,
                           EnvironmentInit(<<>>, d.python, d.requirements),
                           d.commit_hash, d.date)
    IN  [obj EXCEPT
           !.results = d.results,
           !.profiles = IF "profiles" \in DOMAIN d THEN d.profiles ELSE @,
           !.filename = JoinAll(LastTwoComponents(Split(path)))]

-----------------------------------------------------------------------------
(* The scans of the results tree *)

MachineJson == <<"m", "a", "c", "h", "i", "n", "e">> \o DotJson

BenchmarksJson == <<"b", "e", "n", "c", "h", "m", "a", "r", "k", "s">> \o DotJson

SkipFiles == {MachineJson, BenchmarksJson}

\* filename.endswith(suffix)
EndsWith(s, suffix) ==
    /\ Len(s) >= Len(suffix)
    /\ SubSeq(s, Len(s) - Len(suffix) + 1, Len(s)) = suffix

\* path is a file in directory top or below it
IsUnder(path, top) ==
    LET p == Split(path)
        t == Split(top)
    IN  Len(p) > Len(t) /\ SubSeq(p, 1, Len(t)) = t

Basename(path) == LET p == Split(path) IN p[Len(p)]

\* the paths iter_results loads, as a set: os.walk fixes no order
ResultFiles(fs, results) ==
    {path \in DOMAIN fs :
        /\ IsUnder(path, results)
        /\ Basename(path) \notin SkipFiles
        /\ EndsWith(Basename(path), DotJson)}

\* the orders in which os.walk may come upon the files
WalkOrders(files) ==
    {order \in [1..Cardinality(files) -> files] : Range(order) = files}

\* the loop of find_latest_result_hash over the (hash, date) pairs from i on
RECURSIVE LatestFrom(_, _, _, _)
LatestFrom(pairs, i, latest_date, latest_hash) ==
    IF i > Len(pairs) THEN latest_hash
    ELSE IF pairs[i][2] > latest_date
    THEN LatestFrom(pairs, i + 1, pairs[i][2], pairs[i][1])
    ELSE LatestFrom(pairs, i + 1, latest_date, latest_hash)

\* iter_existing_hashes over the files in walk order
ExistingHashes(fs, order) ==
    [i \in 1..Len(order) |->
        LET result == Load(fs, order[i])
        IN  <<result.commit_hash, result.date>>]

\* find_latest_result_hash: whether it raises, and what it returns
FindLatestResultHash(h, fs, machine, root, order) ==
    IF \E i \in 1..Len(order) : LoadRaises(h, fs, order[i])
    THEN [exc |-> TRUE, value |-> <<>>]
    ELSE [exc |-> FALSE,
          value |-> LatestFrom(ExistingHashes(fs, order), 1, 0, <<>>)]

\* the index of the first file of the walk whose load raises, or 0
FirstRaising(h, fs, order) ==
    LET bad == {i \in 1..Len(order) : LoadRaises(h, fs, order[i])}
    IN  IF bad = {} THEN 0 ELSE CHOOSE i \in bad : \A j \in bad : i <= j

\* iter_results run to its end: the records it yields, in walk order, and
\* whether a load raised and ended it
IterResults(h, fs, order) ==
    LET k == FirstRaising(h, fs, order)
        n == IF k = 0 THEN Len(order) ELSE k - 1
    IN  [exc |-> k # 0,
         value |-> [i \in 1..n |-> Load(fs, order[i])]]

-----------------------------------------------------------------------------
(* The operations on the results tree, as the caller invokes them *)

NoRec == [norec |-> TRUE]

Root == <<"r">>

Machines == {<<"m", "1">>, <<"m", "2">>}

\* two commits whose hashes share their first eight characters, and an
\* older one
Commits ==
    {[hash |-> <<"a", "b", "c", "d", "e", "f", "1", "2", "3", "4">>, date |-> 1],
     [hash |-> <<"a", "b", "c", "d", "e", "f", "1", "2", "7", "7">>, date |-> 2],
     [hash |-> <<"b", "b", "c", "d", "e", "f", "1", "2", "3", "4">>, date |-> -1]}

BenchmarkNames == {<<"b">>}

Times == {1, 2}

ProfileBytes == {<<>>, <<"x">>}

\* a record left in the tree by a run on another host, under Python 3.4
ForeignPath ==
    JoinAll(<<Root, <<"m", "1">>,
              <<"c", "c", "c", "c", "c", "c", "c", "c">> \o <<"-", "p", "y", "3", ".", "4">>
                  \o DotJson>>)

ForeignDocument ==
    [results |-> <<<<<<"b">>, 1>>>>,
     params |-> [machine |-> <<"m", "1">>],
     requirements |-> <<>>,
     commit_hash |-> <<"c", "c", "c", "c", "c", "c", "c", "c", "0", "0">>,
     date |-> 3,
     python |-> <<"3", ".", "4">>,
     profiles |-> <<>>,
     version |-> ApiVersion]

\* machine.json and benchmarks.json hold no record
MetadataFiles ==
    (JoinAll(<<Root, <<"m", "1">>, MachineJson>>) :> [version |-> ApiVersion])
        @@ (JoinAll(<<Root, BenchmarksJson>>) :> [version |-> ApiVersion])

InitialTrees ==
    {<<>>, MetadataFiles, ForeignPath :> ForeignDocument,
     (ForeignPath :> ForeignDocument) @@ MetadataFiles}

\* the host has Python 2.7 and virtualenv, and may have Python 3.4
InitResults ==
    /\ host \in {h \in Hosts : <<"2", ".", "7">> \in h.pythons /\ h.virtualenv}
    /\ r_fs \in InitialTrees
    /\ r_rec = NoRec
    /\ r_op = "none"
    /\ r_ret = [arg |-> <<>>, exc |-> FALSE, value |-> <<>>]
    /\ r_ghost = [origin |-> "none", from |-> <<>>, clean |-> FALSE,
                  added |-> <<>>]
    /\ IdleName
    /\ IdleMatrix
    /\ IdleEnv

Ret(arg, exc, value) == [arg |-> arg, exc |-> exc, value |-> value]

Others == <<nameVars, matrixVars, envVars>>

\* Results(params, env, commit_hash, date) for an environment of this host
ResultsNew(machines, commits, envs) ==
    \E machine \in machines, commit \in commits, env \in envs :
        /\ CanConstruct(host, env.python)
        /\ r_rec' = ResultsInit([machine |-> machine],
                        EnvironmentInit(EnvDir, env.python, env.requirements),
                        commit.hash, commit.date)
        /\ r_op' = "new"
        /\ r_ret' = Ret(<<>>, FALSE, <<>>)
        /\ r_ghost' = [origin |-> "new", from |-> <<>>, clean |-> FALSE,
                       added |-> <<>>]
        /\ UNCHANGED <<host, r_fs, Others>>

ResultsAddTime ==
    \E name \in BenchmarkNames, time \in Times :
        /\ r_rec # NoRec
        /\ r_rec' = AddTime(r_rec, name, time)
        /\ r_op' = "add_time"
        /\ r_ret' = Ret(name, FALSE, <<>>)
        /\ r_ghost' = [r_ghost EXCEPT !.clean = FALSE]
        /\ UNCHANGED <<host, r_fs, Others>>

ResultsAddProfile ==
    \E name \in BenchmarkNames, profile \in ProfileBytes :
        /\ r_rec # NoRec
        /\ r_rec' = AddProfile(r_rec, name, profile)
        /\ r_op' = "add_profile"
        /\ r_ret' = Ret(name, FALSE, <<>>)
        /\ r_ghost' = [r_ghost EXCEPT !.clean = FALSE,
                                      !.added = DictSet(@, name, profile)]
        /\ UNCHANGED <<host, r_fs, Others>>

\* the names profiles are asked for: a benchmark's, and one never added
QueriedNames == BenchmarkNames \cup {<<"q">>}

ResultsHasProfile ==
    \E name \in QueriedNames :
        /\ r_rec # NoRec
        /\ r_op' = "has_profile"
        /\ r_ret' = Ret(name, FALSE, HasProfile(r_rec, name))
        /\ UNCHANGED <<host, r_fs, r_rec, r_ghost, Others>>

ResultsGetProfile ==
    \E name \in QueriedNames :
        /\ r_rec # NoRec
        /\ r_op' = "get_profile"
        /\ r_ret' = IF GetProfileRaises(r_rec, name) THEN Ret(name, TRUE, <<>>)
                    ELSE Ret(name, FALSE, GetProfile(r_rec, name))
        /\ UNCHANGED <<host, r_fs, r_rec, r_ghost, Others>>

ResultsSave ==
    /\ r_rec # NoRec
    /\ PathOf(r_rec, Root) \in DOMAIN r_fs \/ Cardinality(DOMAIN r_fs) < MaxFiles
    /\ r_fs' = Save(r_fs, r_rec, Root)
    /\ r_op' = "save"
    /\ r_ret' = Ret(PathOf(r_rec, Root), FALSE, <<>>)
    /\ r_ghost' = [r_ghost EXCEPT !.clean = TRUE]
    /\ UNCHANGED <<host, r_rec, Others>>

\* Results.load(path) of a file of the tree
ResultsLoad ==
    \E path \in DOMAIN r_fs :
        /\ r_op' = "load"
        /\ r_ret' = IF LoadRaises(host, r_fs, path) THEN Ret(path, TRUE, <<>>)
                    ELSE Ret(path, FALSE, Load(r_fs, path))
        /\ UNCHANGED <<host, r_fs, r_rec, r_ghost, Others>>

\* the caller goes on with the record it has just loaded
ResultsUseLoaded ==
    /\ r_op = "load"
    /\ ~r_ret.exc
    /\ r_rec' = r_ret.value
    /\ r_op' = "use"
    /\ r_ret' = Ret(<<>>, FALSE, <<>>)
    /\ r_ghost' = [origin |-> "loaded", from |-> r_ret.arg, clean |-> FALSE,
                   added |-> <<>>]
    /\ UNCHANGED <<host, r_fs, Others>>

\* Results.rm: os.remove raises when there is no such file
ResultsRm ==
    /\ r_rec # NoRec
    /\ LET done == Rm(r_fs, r_rec, Root)
       IN  /\ r_fs' = done.fs
           /\ r_ret' = Ret(PathOf(r_rec, Root), done.exc, <<>>)
    /\ r_op' = "rm"
    /\ r_ghost' = [r_ghost EXCEPT !.clean = FALSE]
    /\ UNCHANGED <<host, r_rec, Others>>

ResultsFindLatest ==
    \E machine \in Machines :
        \E order \in WalkOrders(ResultFiles(r_fs, PathJoin(Root, machine))) :
            LET found == FindLatestResultHash(host, r_fs, machine, Root, order)
            IN  /\ r_op' = "find_latest_result_hash"
                /\ r_ret' = Ret(machine, found.exc, found.value)
                /\ UNCHANGED <<host, r_fs, r_rec, r_ghost, Others>>

\* list(iter_results(root))
ResultsIter ==
    \E order \in WalkOrders(ResultFiles(r_fs, Root)) :
        LET found == IterResults(host, r_fs, order)
        IN  /\ r_op' = "iter_results"
            /\ r_ret' = Ret(Root, found.exc, found.value)
            /\ UNCHANGED <<host, r_fs, r_rec, r_ghost, Others>>

\* list(iter_results_for_machine(root, machine))
ResultsIterForMachine ==
    \E machine \in Machines :
        \E order \in WalkOrders(ResultFiles(r_fs, PathJoin(Root, machine))) :
            LET found == IterResults(host, r_fs, order)
            IN  /\ r_op' = "iter_results_for_machine"
                /\ r_ret' = Ret(machine, found.exc, found.value)
                /\ UNCHANGED <<host, r_fs, r_rec, r_ghost, Others>>

\* SpecRecord: one machine and commit, records that are filled in, saved,
\* loaded and removed
RecordEnvs ==
    {[python |-> <<"2", ".", "7">>,
      requirements |-> <<<<<<"b">>, None>>, <<<<"a">>, <<"1">>>>>>],
     [python |-> <<"3", ".", "4">>, requirements |-> <<>>]}

NextRecord ==
    \/ ResultsNew({<<"m", "1">>},
                  {c \in Commits : c.date = 1}, RecordEnvs)
    \/ ResultsAddTime
    \/ ResultsAddProfile
    \/ ResultsHasProfile
    \/ ResultsGetProfile
    \/ ResultsSave
    \/ ResultsLoad
    \/ ResultsUseLoaded
    \/ ResultsRm

SpecRecord == InitResults /\ [][NextRecord]_vars

\* SpecIndex: records of several machines and commits in one tree
IndexEnvs ==
    {[python |-> <<"2", ".", "7">>, requirements |-> <<<<<<"a">>, <<"1">>>>>>],
     [python |-> <<"3", ".", "4">>, requirements |-> <<>>]}

NextIndex ==
    \/ ResultsNew(Machines, Commits, IndexEnvs)
    \/ ResultsSave
    \/ ResultsRm
    \/ ResultsFindLatest

SpecIndex == InitResults /\ [][NextIndex]_vars

\* SpecScan: records of one commit saved and removed on two machines, and
\* the tree scanned
NextScan ==
    \/ ResultsNew(Machines, {c \in Commits : c.date = 1}, IndexEnvs)
    \/ ResultsSave
    \/ ResultsRm
    \/ ResultsIter
    \/ ResultsIterForMachine

SpecScan == InitResults /\ [][NextScan]_vars

\* C14: no operation on the instance, whether it returns or raises, turns
\* _is_setup or _requirements_installed from true to false.
C14_FlagsNeverCleared ==
    [][/\ e_env.is_setup => e_env'.is_setup
       /\ e_env.requirements_installed => e_env'.requirements_installed]_vars

\* setup() has returned and a later install_requirements() has raised
C14_Witness ==
    /\ Returned("setup")
    /\ e_op = "install_requirements"
    /\ e_exc
    /\ e_env.is_setup
    /\ ~e_env.requirements_installed

\* C15: in every state of the instance _requirements_installed implies
\* _is_setup, whatever setup, install_requirements, install_project and run
\* calls have been made and however they ended.
C15_InstalledImpliesSetup ==
    e_env.requirements_installed => e_env.is_setup

\* the requirements are installed and an install_project() has then raised
C15_Witness ==
    /\ e_env.requirements_installed
    /\ e_env.is_setup
    /\ e_op = "install_project"
    /\ e_exc

\* what this step's operation asked pip to upgrade, in order
Upgraded(calls) ==
    LET idx == {i \in 1..Len(calls) :
                   /\ calls[i].tool = "pip"
                   /\ SubSeq(calls[i].args, 1, 2) = <<"install", "--upgrade">>}
        first == IF idx = {} THEN 1 ELSE CHOOSE i \in idx : \A j \in idx : i <= j
    IN  [k \in 1..Cardinality(idx) |-> calls[first + k - 1].args[3]]

\* name==version for a pinned requirement, the name for an unpinned one
Wanted(item) ==
    IF item[2] = None THEN item[1] ELSE item[1] \o <<"=", "=">> \o item[2]

\* every call before the i-th returned without error
AllOkBefore(calls, i) == \A j \in 1..(i - 1) : calls[j].ok

\* C16: an install_requirements() on an instance whose requirements are not
\* installed runs virtualenv, if at all, before any pip call, and issues a
\* pip call only once setup has succeeded; its pip calls are upgrades, of
\* setuptools first and then of the requirements in turn, name==version
\* for a pinned one and the name for an unpinned one, each issued only when
\* the calls before it succeeded; the flag is set exactly when setuptools
\* and every requirement were upgraded without error.
C16_InstallOrder ==
    [][(~e_env.requirements_installed /\ Invokes("install_requirements")) =>
        LET calls == e_calls'
            reqs == e_env.requirements
            pips == {i \in 1..Len(calls) : calls[i].tool = "pip"}
            up == Upgraded(calls)
        IN  /\ \A i \in pips : \A j \in Creates(calls) : j < i
            /\ \A i \in 1..Len(calls) : calls[i].tool \in {"virtualenv", "pip"}
            /\ pips # {} => (e_env'.is_setup /\ ~FailedCreate(calls))
            /\ Len(up) = Cardinality(pips)
            /\ Len(up) <= Len(reqs) + 1
            /\ \A k \in 1..Len(up) :
                  up[k] = IF k = 1 THEN Setuptools ELSE Wanted(reqs[k - 1])
            /\ \A i \in 1..Len(calls) : AllOkBefore(calls, i)
            /\ e_env'.requirements_installed <=>
                  /\ Len(up) = Len(reqs) + 1
                  /\ \A i \in 1..Len(calls) : calls[i].ok]_vars

\* the first operation, install_requirements(), has created the virtualenv
\* and upgraded setuptools, a pinned and an unpinned requirement
C16_Witness ==
    /\ e_hist.log = <<<<"install_requirements", FALSE>>>>
    /\ Len(e_calls) = 4
    /\ e_calls[1].tool = "virtualenv"
    /\ e_calls[3].args[3] = <<"a", "=", "=", "1">>
    /\ e_calls[4].args[3] = <<"b">>
    /\ e_env.requirements_installed

\* a pip call of this operation failed
PipFailed(calls) == \E i \in 1..Len(calls) : calls[i].tool = "pip" /\ ~calls[i].ok

\* C17: when a pip call fails during install_requirements() the call raises
\* and the instance stays set up with its requirements not installed; the
\* directories and the packages already installed stay, the packages
\* upgraded before the failure being added; an install_requirements()
\* invoked on an instance in that state upgrades again from setuptools on.
C17_FailedInstallKeepsState ==
    [][Invokes("install_requirements") =>
        /\ PipFailed(e_calls') =>
              /\ e_exc'
              /\ e_env'.is_setup
              /\ ~e_env'.requirements_installed
              /\ e_dirs \subseteq e_dirs'
              /\ Exists(e_dirs', e_env.path)
              /\ e_site \subseteq e_site'
              /\ \A i \in 1..Len(e_calls') :
                    (e_calls'[i].tool = "pip" /\ e_calls'[i].ok)
                        => e_calls'[i].args[3] \in e_site'
        /\ (e_env.is_setup /\ ~e_env.requirements_installed) =>
              /\ e_calls' # <<>>
              /\ e_calls'[1] \in
                    {Call("pip", <<"install", "--upgrade", Setuptools>>, ok) :
                        ok \in BOOLEAN}]_vars

\* an install_requirements() raised in an upgrade after setuptools, and the
\* next one has upgraded everything again and returned
C17_Witness ==
    /\ Len(e_hist.log) = 2
    /\ e_hist.log[1] = <<"install_requirements", TRUE>>
    /\ e_hist.log[2] = <<"install_requirements", FALSE>>
    /\ e_hist.created = 1
    /\ Len(e_calls) = 1 + Len(e_env.requirements)
    /\ e_calls[1].tool = "pip"
    /\ Len(e_env.requirements) = 2

\* the interpreter was started by this operation
Interpreted(calls) == {i \in 1..Len(calls) : calls[i].tool = "python"}

\* C18: the interpreter is started only by run(), as its last call, on an
\* instance whose requirements are installed, after calls that all
\* succeeded; a run() during which setup or an upgrade fails raises
\* without starting the interpreter, and a run() that does not raise before
\* has started it once.
C18_RunAfterInstall ==
    [][/\ Interpreted(e_calls') # {} =>
            /\ Invokes("run")
            /\ Interpreted(e_calls') = {Len(e_calls')}
            /\ AllOkBefore(e_calls', Len(e_calls'))
            /\ e_env'.requirements_installed
            /\ e_env'.is_setup
       /\ Invokes("run") =>
            IF e_env'.requirements_installed
            THEN Interpreted(e_calls') # {}
            ELSE e_exc' /\ Interpreted(e_calls') = {}]_vars

\* run() on a new instance has created the virtualenv, upgraded the
\* packages and started the interpreter
C18_Witness ==
    /\ Len(e_hist.log) = 1
    /\ e_op = "run"
    /\ Len(e_calls) = 3 + Len(e_env.requirements)
    /\ e_calls[1].tool = "virtualenv"
    /\ e_calls[Len(e_calls)].tool = "python"

\* C19: install_project() asks pip to uninstall the project and then to
\* install it in editable mode, as its last two calls, after the calls
\* that install the requirements have succeeded and the flag is set; it
\* raises exactly when the install fails, whether the uninstall failed or
\* not; when the requirements cannot be installed it raises without either
\* call.
C19_InstallProjectOrder ==
    [][Invokes("install_project") =>
        LET calls == e_calls'
            n == Len(calls)
            project == {i \in 1..n :
                          /\ calls[i].tool = "pip"
                          /\ calls[i].args[1] = "uninstall"
                             \/ calls[i].args[2] = "-e"}
        IN  IF e_env'.requirements_installed
            THEN /\ n >= 2
                 /\ project = {n - 1, n}
                 /\ calls[n - 1].args = <<"uninstall", "-y", Project>>
                 /\ calls[n].args = <<"install", "-e", Abspath(Project)>>
                 /\ AllOkBefore(calls, n - 1)
                 /\ e_exc' <=> ~calls[n].ok
            ELSE e_exc' /\ project = {}]_vars

\* the first operation, install_project(), has installed the requirements
\* and the project and returned although the uninstall failed
C19_Witness ==
    /\ Len(e_hist.log) = 1
    /\ e_op = "install_project"
    /\ ~e_exc
    /\ Len(e_calls) > 2
    /\ ~e_calls[Len(e_calls) - 1].ok
    /\ e_calls[Len(e_calls)].ok

-----------------------------------------------------------------------------
(* Claims about the record and its file *)

\* <machine>/<first 8 characters of the hash>-<environment name>.json
CanonicalFilename(obj) ==
    obj.params.machine \o <<"/">>
        \o [i \in 1..HashPrefixLen |-> obj.commit_hash[i]] \o <<"-">>
        \o Name(obj.env.python, obj.env.requirements) \o DotJson

\* C7: a record constructed in memory keeps the file name
\* <machine>/<first 8 characters of the hash>-<environment name>.json
\* whatever add_time and add_profile do to it, and save(root) writes its
\* document at <root>/ followed by that name.
C7_CanonicalPath ==
    r_ghost.origin = "new" =>
        /\ r_rec.filename = CanonicalFilename(r_rec)
        /\ r_op = "save" =>
              /\ r_ret.arg = Root \o <<"/">> \o CanonicalFilename(r_rec)
              /\ r_ret.arg \in DOMAIN r_fs
              /\ r_fs[r_ret.arg].commit_hash = r_rec.commit_hash

\* a record with a ten-character hash, given a time and a profile, is saved
C7_Witness ==
    /\ r_ghost.origin = "new"
    /\ r_op = "save"
    /\ Len(r_rec.commit_hash) > HashPrefixLen
    /\ r_rec.results # <<>>
    /\ r_rec.profiles # <<>>
    /\ r_rec.env.requirements # <<>>

\* the file the caller's record was saved to has just been loaded, and
\* neither the record nor the tree changed in between
LoadedBack ==
    /\ r_op = "load"
    /\ r_ghost.clean
    /\ r_ret.arg = PathOf(r_rec, Root)

\* C8: loading the file save() wrote gives a record with the same results,
\* profiles, commit hash, date, python version, params and requirements,
\* whose own path under the same root is the path it was loaded from; a
\* loaded record is saved to the file it was loaded from.
C8_RoundTrip ==
    /\ LoadedBack =>
          /\ ~r_ret.exc
          /\ DictEq(r_ret.value.results, r_rec.results)
          /\ DictEq(r_ret.value.profiles, r_rec.profiles)
          /\ r_ret.value.commit_hash = r_rec.commit_hash
          /\ r_ret.value.date = r_rec.date
          /\ r_ret.value.python = r_rec.python
          /\ r_ret.value.params = r_rec.params
          /\ DictEq(r_ret.value.env.requirements, r_rec.env.requirements)
          /\ PathOf(r_ret.value, Root) = r_ret.arg
    /\ (r_op = "save" /\ r_ghost.origin = "loaded") => r_ret.arg = r_ghost.from

\* a record with a time, a profile and an unpinned requirement is loaded back
C8_Witness ==
    /\ LoadedBack
    /\ r_rec.results # <<>>
    /\ r_rec.profiles # <<>>
    /\ \E i \in 1..Len(r_rec.env.requirements) :
          r_rec.env.requirements[i][2] = None

\* C9 as stated: what load() gives depends on the stored document alone: for
\* a stored record it returns a record whose environment has the document's
\* python and requirements and is not set up.
C9_LoadDependsOnDocumentOnly ==
    (r_op = "load" /\ RecordKeys \subseteq DOMAIN r_fs[r_ret.arg]) =>
        /\ ~r_ret.exc
        /\ r_ret.value.env.python = r_fs[r_ret.arg].python
        /\ r_ret.value.env.requirements = r_fs[r_ret.arg].requirements
        /\ ~r_ret.value.env.is_setup
        /\ ~r_ret.value.env.requirements_installed

\* the documents of the records of a machine
RecordsOf(machine) ==
    {r_fs[path] : path \in ResultFiles(r_fs, PathJoin(Root, machine))}

\* C10 as stated: what find_latest_result_hash returns for a machine is the
\* commit hash of one of its records with the greatest date when it has a
\* record, whatever integers the dates are, and the empty string when it has
\* none.
C10_LatestHasGreatestDate ==
    (r_op = "find_latest_result_hash" /\ ~r_ret.exc) =>
        LET docs == RecordsOf(r_ret.arg)
        IN  IF docs = {} THEN r_ret.value = <<>>
            ELSE \E d \in docs :
                    /\ r_ret.value = d.commit_hash
                    /\ \A e \in docs : e.date <= d.date

-----------------------------------------------------------------------------
(* Claims about the scans, removal and profiles *)

\* the paths under root of the records a scan has yielded, in order
YieldedPaths == [i \in 1..Len(r_ret.value) |-> PathOf(r_ret.value[i], Root)]

\* what a scan yielded is one record for each file of files, each holding
\* what its file holds
YieldsOnePerFile(files) ==
    /\ ~r_ret.exc
    /\ Len(r_ret.value) = Cardinality(files)
    /\ Range(YieldedPaths) = files
    /\ \A i \in 1..Len(r_ret.value) :
          r_ret.value[i].commit_hash = r_fs[YieldedPaths[i]].commit_hash

\* C11 as stated: iter_results(root) yields exactly one record for each file
\* under root whose name ends in .json and is neither machine.json nor
\* benchmarks.json, and iter_results_for_machine(root, m) exactly one for
\* each such file under root/m.
C11_ScanYieldsEveryRecord ==
    /\ r_op = "iter_results" =>
          YieldsOnePerFile({p \in DOMAIN r_fs :
                              /\ IsUnder(p, Root)
                              /\ EndsWith(Basename(p), DotJson)
                              /\ Basename(p) # MachineJson
                              /\ Basename(p) # BenchmarksJson})
    /\ r_op = "iter_results_for_machine" =>
          YieldsOnePerFile({p \in DOMAIN r_fs :
                              /\ IsUnder(p, PathJoin(Root, r_ret.arg))
                              /\ EndsWith(Basename(p), DotJson)
                              /\ Basename(p) # MachineJson
                              /\ Basename(p) # BenchmarksJson})

\* C12: rm(root) removes the file at the record's path and no other: the
\* canonical path for a record constructed in memory, the file it was
\* loaded from for a loaded record; when there is no file at that path it
\* raises and leaves the tree as it was.
C12_RmRemovesOwnFile ==
    [][r_op' = "rm" =>
        LET path == r_ret'.arg
        IN  /\ r_ghost.origin = "new" =>
                  path = Root \o <<"/">> \o CanonicalFilename(r_rec)
            /\ r_ghost.origin = "loaded" => path = r_ghost.from
            /\ IF path \in DOMAIN r_fs
               THEN /\ ~r_ret'.exc
                    /\ DOMAIN r_fs' = DOMAIN r_fs \ {path}
                    /\ \A p \in DOMAIN r_fs' : r_fs'[p] = r_fs[p]
               ELSE /\ r_ret'.exc
                    /\ r_fs' = r_fs]_vars

\* a record loaded from a file has been removed, and the next rm has raised
\* with other files in the tree
C12_Witness ==
    /\ r_op = "rm"
    /\ r_ret.exc
    /\ r_ghost.origin = "loaded"
    /\ r_ret.arg = r_ghost.from
    /\ DOMAIN r_fs # {}

\* C13: on a record constructed in memory has_profile(n) is true exactly
\* when add_profile(n, _) has been called, get_profile(n) returns the bytes
\* of the latest add_profile(n, x), the empty bytes included, and raises when
\* there was none; add_time leaves the profiles and add_profile the results
\* as they were.
C13_ProfilesFollowAddProfile ==
    /\ [](r_ghost.origin = "new" =>
            /\ r_op = "has_profile" =>
                  (r_ret.value <=> r_ret.arg \in DictKeys(r_ghost.added))
            /\ r_op = "get_profile" =>
                  IF r_ret.arg \in DictKeys(r_ghost.added)
                  THEN /\ ~r_ret.exc
                       /\ r_ret.value = DictGet(r_ghost.added, r_ret.arg)
                  ELSE r_ret.exc)
    /\ [][/\ r_op' = "add_time" => r_rec'.profiles = r_rec.profiles
          /\ r_op' = "add_profile" => r_rec'.results = r_rec.results]_vars

\* the empty profile is read back from a record that has a time
C13_Witness ==
    /\ r_ghost.origin = "new"
    /\ r_op = "get_profile"
    /\ ~r_ret.exc
    /\ r_ret.value = <<>>
    /\ r_rec.results # <<>>

-----------------------------------------------------------------------------
(* Claims about the files of several records *)

\* the stored document and the record differ in machine, commit hash or
\* environment configuration
DiffersFrom(doc, obj) ==
    \/ doc.params.machine # obj.params.machine
    \/ doc.commit_hash # obj.commit_hash
    \/ doc.python # obj.env.python
    \/ ~DictEq(doc.requirements, obj.env.requirements)

\* the file at path is as it was before this step
FileKept(path) == path \in DOMAIN r_fs' /\ r_fs'[path] = r_fs[path]

Short(hash) == SubSeq(hash, 1, IF Len(hash) < 8 THEN Len(hash) ELSE 8)

\* the stored document and the record differ in machine, in the first
\* eight characters of the commit hash or in environment name
DiffersInFileName(doc, obj) ==
    \/ doc.params.machine # obj.params.machine
    \/ Short(doc.commit_hash) # Short(obj.commit_hash)
    \/ Name(doc.python, doc.requirements)
          # Name(obj.env.python, obj.env.requirements)

=============================================================================
